---- MODULE Spec2Model ----
(***************************************************************************)
(* Unpaired-electron (U-layer) canonicalisation of rmgpy/molecule/         *)
(* generator.py: normalize, group_adjacent_unpaired_electrons,             *)
(* generate_combos, valid_combo, find_lowest_u_layer, partition and        *)
(* create_U_layer; and the group-additivity lookup                         *)
(* SolvationDatabase.__addGroupSoluteData of rmgpy/data/solvation.py.      *)
(*                                                                         *)
(* A molecular graph is a record                                           *)
(*   [elem : sequence of element symbols, one per atom of mol.atoms,       *)
(*    rad  : sequence of radical-electron counts,                          *)
(*    bo   : bond order of every unordered atom pair <<i, j>>, i < j       *)
(*           (0 = not bonded)]                                             *)
(* Atoms are named by their 1-based position in mol.atoms.                 *)
(***************************************************************************)
EXTENDS Integers, Sequences, FiniteSets

VARIABLES
    npc,              \* position inside normalize: "idle", "expand", "select", "done"
    seed,             \* the graph normalize was called with (parameter mol)
    isomers,          \* normalize: list of expanded / to be expanded isomers
    candidates,       \* normalize: list of candidates
    index,            \* normalize: loop index into isomers
    current_minimum,  \* normalize: the returned graph
    runs,             \* how many times normalize has been started on this input
    firstmin,         \* result of the first run when normalize is run on its own output
    fpc,              \* position inside find_lowest_u_layer: "idle", "call", "group", "select", "done"
    fmol,             \* find_lowest_u_layer: parameter mol
    u_layer,          \* the raw u-layer (local of create_U_layer, parameter of find_lowest_u_layer)
    equivalent_atoms, \* the list of lists of equivalent atoms
    u_layer_copy,     \* group_adjacent_unpaired_electrons: the electrons not yet grouped
    adjacent_electrons, \* group_adjacent_unpaired_electrons: the groups formed so far
    new_u_layer,      \* find_lowest_u_layer: the returned list
    cpc,              \* position inside create_U_layer: "idle", "start", "copied", "normalizing", "layer", "refining", "return"
    mol,              \* create_U_layer: the molecule of the caller
    molcopy,          \* create_U_layer: the working copy
    auxinfo,          \* create_U_layer: the parsed N-layer and E-layer of the auxiliary information
    ret,              \* create_U_layer: the returned value
    spc,              \* position inside the loop over the groups: "idle", "combos", "extended"
    groups_done,      \* find_lowest_u_layer: number of groups the loop has taken
    cur_group,        \* find_lowest_u_layer: the group of the current pass
    cur_generated,    \* find_lowest_u_layer: what generate_combos returned for the group
    cur_combos,       \* find_lowest_u_layer: the combos the inner loop has not taken yet
    cur_combo,        \* find_lowest_u_layer: the sorted combo of the last inner pass
    cur_accepted,     \* find_lowest_u_layer: what valid_combo returned for that combo
    cur_selected,     \* find_lowest_u_layer: the lowest valid combo so far
    ppc,              \* position inside partition: "idle", "loop", "done"
    eq_atoms,         \* partition: parameter eq_atoms
    taken,            \* partition: number of entries of u_layer the loop has taken
    partitions,       \* partition: the list of partitions
    e_layers,         \* partition: the list of equivalence lists
    lpc,              \* position inside __addGroupSoluteData: "idle", "call", "fall", "follow", "done", "raised"
    database,         \* __addGroupSoluteData: the entries of the database, by label
    node,             \* __addGroupSoluteData: the label of the current node, 0 for None
    data,             \* __addGroupSoluteData: local data
    comment,          \* __addGroupSoluteData: local comment, a label
    scan,             \* __addGroupSoluteData: number of entries the for loop of this pass has taken
    soluteData        \* __addGroupSoluteData: the solute data that is added to

nvars == <<npc, seed, isomers, candidates, index, current_minimum, runs, firstmin>>

fvars == <<fpc, fmol, u_layer, equivalent_atoms, u_layer_copy, adjacent_electrons, new_u_layer>>

cvars == <<cpc, mol, molcopy, auxinfo, ret>>

svars == <<spc, groups_done, cur_group, cur_generated, cur_combos, cur_combo, cur_accepted, cur_selected>>

pvars == <<ppc, eq_atoms, taken, partitions, e_layers>>

lvars == <<lpc, database, node, data, comment, scan, soluteData>>

vars == <<nvars, fvars, cvars, svars, pvars, lvars>>

(***************************************************************************)
(* Bounds of the model.                                                    *)
(***************************************************************************)
NormAtoms == 4        \* largest number of atoms of a graph given to normalize
MaxRadicals == 2      \* largest total number of radical electrons of an input
FlAtoms == 4          \* number of atoms of a graph given to find_lowest_u_layer
MaxLayer == 3         \* largest length of a raw u-layer given to find_lowest_u_layer
CreateAtoms == 3      \* largest number of heavy atoms of a molecule given to create_U_layer
SelAtoms == 4         \* number of atoms of a graph in the loop over the groups
PartAtoms == 7        \* largest atom index given to partition
PartLen == 2          \* largest length of a u-layer given to partition
LookupEntries == 2    \* number of entries of a database given to __addGroupSoluteData

NoGraph == [elem |-> <<>>, rad |-> <<>>, bo |-> <<>>]

NoAux == [N |-> <<>>, E |-> <<>>]

NoReturn == [none |-> FALSE, str |-> <<>>]

\* create_U_layer has not been called
CreateIdle ==
    /\ cpc = "idle"
    /\ mol = NoGraph
    /\ molcopy = NoGraph
    /\ auxinfo = NoAux
    /\ ret = NoReturn

\* normalize has not been called
NormalizeIdle ==
    /\ npc = "idle"
    /\ seed = NoGraph
    /\ isomers = <<>>
    /\ candidates = <<>>
    /\ index = 0
    /\ current_minimum = NoGraph
    /\ runs = 0
    /\ firstmin = NoGraph

\* the loop over the groups has not started
SelectIdle ==
    /\ spc = "idle"
    /\ groups_done = 0
    /\ cur_group = <<>>
    /\ cur_generated = <<>>
    /\ cur_combos = <<>>
    /\ cur_combo = <<>>
    /\ cur_accepted = FALSE
    /\ cur_selected = <<>>

\* partition has not been called
PartitionIdle ==
    /\ ppc = "idle"
    /\ eq_atoms = <<>>
    /\ taken = 0
    /\ partitions = <<>>
    /\ e_layers = <<>>

\* None
NoData == [kind |-> "None"]

NoSoluteData == [S |-> 0, comment |-> <<>>]

\* __addGroupSoluteData has not been called
LookupIdle ==
    /\ lpc = "idle"
    /\ database = <<>>
    /\ node = 0
    /\ data = NoData
    /\ comment = 0
    /\ scan = 0
    /\ soluteData = NoSoluteData

\* find_lowest_u_layer has not been called
FindLowestIdle ==
    /\ fpc = "idle"
    /\ fmol = NoGraph
    /\ u_layer = <<>>
    /\ equivalent_atoms = <<>>
    /\ u_layer_copy = <<>>
    /\ adjacent_electrons = <<>>
    /\ new_u_layer = <<>>

(***************************************************************************)
(* Sequences of integers: Python list comparison and sorted().             *)
(***************************************************************************)
Range(s) == {s[k] : k \in 1..Len(s)}

Min2(a, b) == IF a <= b THEN a ELSE b

Max2(a, b) == IF a <= b THEN b ELSE a

\* Python's a < b on lists of integers
RECURSIVE ListLess(_, _)
ListLess(a, b) ==
    IF b = <<>> THEN FALSE
    ELSE IF a = <<>> THEN TRUE
    ELSE IF Head(a) # Head(b) THEN Head(a) < Head(b)
    ELSE ListLess(Tail(a), Tail(b))

ListLeq(a, b) == a = b \/ ListLess(a, b)

RECURSIVE InsertSorted(_, _)
InsertSorted(x, s) ==
    IF s = <<>> THEN <<x>>
    ELSE IF x <= Head(s) THEN <<x>> \o s
    ELSE <<Head(s)>> \o InsertSorted(x, Tail(s))

\* Python's sorted(s)
RECURSIVE sorted(_)
sorted(s) == IF s = <<>> THEN <<>> ELSE InsertSorted(Head(s), sorted(Tail(s)))

IsAscending(s) == \A k \in 1..(Len(s) - 1) : s[k] <= s[k + 1]

RECURSIVE SumSeq(_)
SumSeq(s) == IF s = <<>> THEN 0 ELSE Head(s) + SumSeq(Tail(s))

\* all orderings of a finite set, as sequences
RECURSIVE Orderings(_)
Orderings(S) ==
    IF S = {} THEN {<<>>}
    ELSE UNION {{<<x>> \o t : t \in Orderings(S \ {x})} : x \in S}

(***************************************************************************)
(* Molecular graphs.                                                       *)
(***************************************************************************)
NAtoms(g) == Len(g.rad)

Pairs(n) == {p \in (1..n) \X (1..n) : p[1] < p[2]}

Pair(i, j) == <<Min2(i, j), Max2(i, j)>>

\* order of the bond between atoms i and j, 0 when they are not bonded
Bo(g, i, j) == IF i = j THEN 0 ELSE g.bo[Pair(i, j)]

hasBond(g, i, j) == Bo(g, i, j) > 0

\* the atoms bonded to atom i (the keys of atom.bonds)
Neighbours(g, i) == {j \in 1..NAtoms(g) : hasBond(g, i, j)}

getRadicalCount(g) == SumSeq(g.rad)

Valence(g, i) == SumSeq([j \in 1..NAtoms(g) |-> Bo(g, i, j)]) + g.rad[i]

\* graph isomorphism: a bijection of the atoms that keeps element, radical
\* count and bond orders; m maps atoms 1..k-1 of g to atoms of h
RECURSIVE IsoExtend(_, _, _, _)
IsoExtend(g, h, k, m) ==
    IF k > NAtoms(g) THEN TRUE
    ELSE \E v \in 1..NAtoms(h) :
            /\ v \notin Range(m)
            /\ g.elem[k] = h.elem[v]
            /\ g.rad[k] = h.rad[v]
            /\ \A j \in 1..(k - 1) : Bo(g, j, k) = Bo(h, m[j], v)
            /\ IsoExtend(g, h, k + 1, Append(m, v))

isIsomorphic(g, h) == NAtoms(g) = NAtoms(h) /\ IsoExtend(g, h, 1, <<>>)

(***************************************************************************)
(* Resonance isomers.  For the hydrocarbon skeletons of this model (no     *)
(* lone pairs, no nitrogen, no aromatic bonds) only the adjacent-radical   *)
(* shift  a1.-a2=a3  ->  a1=a2-a3.  produces isomers.                      *)
(***************************************************************************)
findAllDelocalizationPaths(g, a1) ==
    IF g.rad[a1] <= 0 THEN {}
    ELSE {p \in {a1} \X (1..NAtoms(g)) \X (1..NAtoms(g)) :
            /\ Bo(g, a1, p[2]) \in {1, 2}
            /\ p[3] # a1
            /\ Bo(g, p[2], p[3]) \in {2, 3}}

\* the isomer one delocalization path away: the radical moves from a1 to a3
ShiftRadical(g, p) ==
    [g EXCEPT !.rad = [@ EXCEPT ![p[1]] = @ - 1, ![p[3]] = @ + 1],
              !.bo  = [@ EXCEPT ![Pair(p[1], p[2])] = @ + 1,
                                ![Pair(p[2], p[3])] = @ - 1]]

\* the possible result lists: atoms are visited in the order of mol.atoms,
\* the paths of one atom come in the (arbitrary) order of its bond dictionary
RECURSIVE getAdjacentResonanceIsomers(_, _)
getAdjacentResonanceIsomers(g, a) ==
    IF a > NAtoms(g) THEN {<<>>}
    ELSE {[k \in 1..Len(o) |-> ShiftRadical(g, o[k])] \o rest :
            o \in Orderings(findAllDelocalizationPaths(g, a)),
            rest \in getAdjacentResonanceIsomers(g, a + 1)}

getLonePairRadicalResonanceIsomers(g) == <<>>

getN5dd_N5tsResonanceIsomers(g) == <<>>

getKekulizedResonanceIsomers(g) == <<>>

\* every graph reachable from g by any number of resonance shifts
RECURSIVE Closure(_)
Closure(S) ==
    LET T == S \cup
             UNION {UNION {{ShiftRadical(h, p) : p \in findAllDelocalizationPaths(h, a)} :
                            a \in 1..NAtoms(h)} : h \in S}
    IN  IF T = S THEN S ELSE Closure(T)

ResonanceReachable(g) == Closure({g})

(***************************************************************************)
(* get_unpaired_electrons: 0-based positions of the atoms with at least    *)
(* one radical electron, ascending.                                        *)
(***************************************************************************)
RECURSIVE Locations(_, _)
Locations(g, k) ==
    IF k > NAtoms(g) THEN <<>>
    ELSE (IF g.rad[k] >= 1 THEN <<k - 1>> ELSE <<>>) \o Locations(g, k + 1)

get_unpaired_electrons(g) == sorted(Locations(g, 1))

(***************************************************************************)
(* normalize                                                               *)
(***************************************************************************)
\* Absorb with a bug: a new isomer is compared with the listed isomers by
\* equality instead of isomorphism
RECURSIVE Absorb_ByEquality(_, _, _)
Absorb_ByEquality(newIsomers, isos, cands) ==
    IF newIsomers = <<>> THEN <<isos, cands>>
    ELSE LET newIsomer == Head(newIsomers)
         IN  IF \E k \in 1..Len(isos) : isos[k] = newIsomer
             THEN Absorb_ByEquality(Tail(newIsomers), isos, Append(cands, newIsomer))
             ELSE Absorb_ByEquality(Tail(newIsomers), Append(isos, newIsomer), cands)

\* the for-loop over newIsomers: a new isomer that is isomorphic to an isomer
\* already on the list becomes a candidate, any other one is appended to the
\* list of isomers.  Returns <<isomers, candidates>>.
RECURSIVE Absorb(_, _, _)
Absorb(newIsomers, isos, cands) ==
    IF newIsomers = <<>> THEN <<isos, cands>>
    ELSE LET newIsomer == Head(newIsomers)
         IN  IF \E k \in 1..Len(isos) : isIsomorphic(isos[k], newIsomer)
             THEN Absorb(Tail(newIsomers), isos, Append(cands, newIsomer))
             ELSE Absorb(Tail(newIsomers), Append(isos, newIsomer), cands)

\* SelectMinimum with a bug: a candidate with an equal list replaces the minimum
RECURSIVE SelectMinimum_LastWins(_, _)
SelectMinimum_LastWins(cur, cands) ==
    IF cands = <<>> THEN cur
    ELSE IF ListLeq(get_unpaired_electrons(Head(cands)), get_unpaired_electrons(cur))
         THEN SelectMinimum_LastWins(Head(cands), Tail(cands))
         ELSE SelectMinimum_LastWins(cur, Tail(cands))

\* the selection loop: the first candidate with the smallest list of positions
RECURSIVE SelectMinimum(_, _)
SelectMinimum(cur, cands) ==
    IF cands = <<>> THEN cur
    ELSE IF ListLess(get_unpaired_electrons(Head(cands)), get_unpaired_electrons(cur))
         THEN SelectMinimum(Head(cands), Tail(cands))
         ELSE SelectMinimum(cur, Tail(cands))

\* one pass of "while index < len(isomers)"
NormalizeExpand ==
    /\ npc = "expand"
    /\ index < Len(isomers)
    /\ LET isomer == isomers[index + 1]
       IN  \E adj \in getAdjacentResonanceIsomers(isomer, 1) :
             LET newIsomers == adj \o getLonePairRadicalResonanceIsomers(isomer)
                                   \o getN5dd_N5tsResonanceIsomers(isomer)
                                   \o getKekulizedResonanceIsomers(isomer)
                 r == Absorb(newIsomers, isomers, candidates)
             IN  /\ isomers' = r[1]
                 /\ candidates' = r[2]
    /\ index' = index + 1
    /\ UNCHANGED <<lvars, svars, pvars, npc, seed, current_minimum, runs, firstmin, fvars, cvars>>

\* the loop condition fails
NormalizeLoopExit ==
    /\ npc = "expand"
    /\ index >= Len(isomers)
    /\ npc' = "select"
    /\ UNCHANGED <<lvars, svars, pvars, seed, isomers, candidates, index, current_minimum, runs, firstmin, fvars, cvars>>

\* the selection of the candidate with the lowest descriptor, and the return
NormalizeSelect ==
    /\ npc = "select"
    /\ current_minimum' = SelectMinimum(candidates[1], Tail(candidates))
    /\ npc' = "done"
    /\ UNCHANGED <<lvars, svars, pvars, seed, isomers, candidates, index, runs, firstmin, fvars, cvars>>

\* normalize is called again, on the graph it returned
NormalizeAgain ==
    /\ npc = "done"
    /\ runs = 1
    /\ runs' = 2
    /\ firstmin' = current_minimum
    /\ seed' = current_minimum
    /\ isomers' = <<current_minimum>>
    /\ candidates' = <<current_minimum>>
    /\ index' = 0
    /\ current_minimum' = NoGraph
    /\ npc' = "expand"
    /\ UNCHANGED <<lvars, svars, pvars, fvars, cvars>>

(***************************************************************************)
(* The graphs given to normalize: unbranched carbon skeletons (chains and  *)
(* rings) of up to NormAtoms atoms with single and double bonds, at most   *)
(* one radical electron per atom, no atom above valence 4, under every     *)
(* order of the atoms.                                                     *)
(***************************************************************************)
SkeletonEdges(n, ring) ==
    {<<i, i + 1>> : i \in 1..(n - 1)} \cup (IF ring /\ n >= 3 THEN {<<1, n>>} ELSE {})

Carbons(n) == [k \in 1..n |-> "C"]

BaseGraphs(n) ==
    {g \in UNION {{[elem |-> Carbons(n),
                    rad  |-> r,
                    bo   |-> [p \in Pairs(n) |-> IF p \in DOMAIN o THEN o[p] ELSE 0]] :
                        r \in [1..n -> 0..1],
                        o \in [SkeletonEdges(n, ring) -> 1..2]} : ring \in BOOLEAN} :
        /\ getRadicalCount(g) \in 1..MaxRadicals
        /\ \A i \in 1..n : Valence(g, i) <= 4}

AtomOrders(n) == Orderings(1..n)

\* atom i of g becomes atom f[i]
Relabel(g, f) ==
    LET n == NAtoms(g)
        inv == [v \in 1..n |-> CHOOSE i \in 1..n : f[i] = v]
    IN  [elem |-> [v \in 1..n |-> g.elem[inv[v]]],
         rad  |-> [v \in 1..n |-> g.rad[inv[v]]],
         bo   |-> [p \in Pairs(n) |-> Bo(g, inv[p[1]], inv[p[2]])]]

NormSeeds(n) == {Relabel(g, f) : g \in BaseGraphs(n), f \in AtomOrders(n)}

InitNormalize ==
    /\ \E n \in 1..NormAtoms : seed \in NormSeeds(n)
    /\ isomers = <<seed>>
    /\ candidates = <<seed>>
    /\ index = 0
    /\ current_minimum = NoGraph
    /\ npc = "expand"
    /\ runs = 1
    /\ firstmin = NoGraph
    /\ FindLowestIdle
    /\ CreateIdle
    /\ SelectIdle
    /\ LookupIdle
    /\ PartitionIdle

NextNormalize ==
    \/ NormalizeExpand
    \/ NormalizeLoopExit
    \/ NormalizeSelect
    \/ NormalizeAgain

SpecNormalize == InitNormalize /\ [][NextNormalize]_vars

(***************************************************************************)
(* One call of normalize on a monoradical, run to its end: the while loop  *)
(* and the selection are taken whenever they can be.                       *)
(***************************************************************************)
InitNormalizeOnce ==
    /\ InitNormalize
    /\ getRadicalCount(seed) = 1

NextNormalizeOnce ==
    \/ NormalizeExpand
    \/ NormalizeLoopExit
    \/ NormalizeSelect

SpecNormalizeOnce ==
    /\ InitNormalizeOnce
    /\ [][NextNormalizeOnce]_vars
    /\ WF_vars(NextNormalizeOnce)

(***************************************************************************)
(* group_adjacent_unpaired_electrons, generate_combos, valid_combo and     *)
(* find_lowest_u_layer.                                                    *)
(***************************************************************************)
\* any(i in x for x in equivalent_atoms)
InSomeClass(i, eq) == \E k \in 1..Len(eq) : i \in Range(eq[k])

\* list.remove(x): the list without the first occurrence of x
RECURSIVE Remove(_, _)
Remove(s, x) ==
    IF s = <<>> THEN <<>>
    ELSE IF Head(s) = x THEN Tail(s)
    ELSE <<Head(s)>> \o Remove(Tail(s), x)

\* group_adjacent_unpaired_electrons: the local copy of the u-layer is made
FindLowestEnter ==
    /\ fpc = "call"
    /\ equivalent_atoms # <<>>
    /\ u_layer_copy' = u_layer
    /\ adjacent_electrons' = <<>>
    /\ fpc' = "group"
    /\ UNCHANGED <<lvars, svars, pvars, fmol, u_layer, equivalent_atoms, new_u_layer, nvars, cvars>>

\* find_lowest_u_layer with no equivalent atoms returns the u-layer it was given
FindLowestNoEquivalents ==
    /\ fpc = "call"
    /\ equivalent_atoms = <<>>
    /\ new_u_layer' = u_layer
    /\ fpc' = "done"
    /\ UNCHANGED <<lvars, svars, pvars, fmol, u_layer, equivalent_atoms, u_layer_copy, adjacent_electrons, nvars, cvars>>

\* group_adjacent_unpaired_electrons with a bug: the partner of a pair is
\* left in the copy
group_adjacent_unpaired_electrons_KeepsPartner ==
    /\ fpc = "group"
    /\ u_layer_copy # <<>>
    /\ LET i == u_layer_copy[Len(u_layer_copy)]
           popped == SubSeq(u_layer_copy, 1, Len(u_layer_copy) - 1)
           partners == Neighbours(fmol, i) \cap Range(popped)
       IN  /\ u_layer_copy' = popped
           /\ IF ~InSomeClass(i, equivalent_atoms) \/ partners = {}
              THEN adjacent_electrons' = Append(adjacent_electrons, <<i>>)
              ELSE \E at_index \in partners :
                      adjacent_electrons' = Append(adjacent_electrons, sorted(<<i, at_index>>))
    /\ UNCHANGED <<lvars, svars, pvars, fpc, fmol, u_layer, equivalent_atoms, new_u_layer, nvars, cvars>>

\* one pass of "while u_layer_copy": the last electron is popped; an electron
\* outside every list of equivalent atoms is a group by itself, any other one
\* is paired with the first bonded atom, in the order of the bond dictionary,
\* that is still in the copy
group_adjacent_unpaired_electrons ==
    /\ fpc = "group"
    /\ u_layer_copy # <<>>
    /\ LET i == u_layer_copy[Len(u_layer_copy)]
           popped == SubSeq(u_layer_copy, 1, Len(u_layer_copy) - 1)
           partners == Neighbours(fmol, i) \cap Range(popped)
       IN  IF ~InSomeClass(i, equivalent_atoms) \/ partners = {}
           THEN /\ adjacent_electrons' = Append(adjacent_electrons, <<i>>)
                /\ u_layer_copy' = popped
           ELSE \E at_index \in partners :
                   /\ adjacent_electrons' = Append(adjacent_electrons, sorted(<<i, at_index>>))
                   /\ u_layer_copy' = Remove(popped, at_index)
    /\ UNCHANGED <<lvars, svars, pvars, fpc, fmol, u_layer, equivalent_atoms, new_u_layer, nvars, cvars>>

\* combinations with a bug: an entry can be taken more than once
\* (itertools.combinations_with_replacement)
RECURSIVE combinations_WithReplacement(_, _)
combinations_WithReplacement(s, r) ==
    IF r = 0 THEN << <<>> >>
    ELSE IF s = <<>> THEN <<>>
    ELSE LET with == combinations_WithReplacement(s, r - 1)
         IN  [k \in 1..Len(with) |-> <<Head(s)>> \o with[k]]
                 \o combinations_WithReplacement(Tail(s), r)

\* itertools.combinations(s, r), in its order
RECURSIVE combinations(_, _)
combinations(s, r) ==
    IF r = 0 THEN << <<>> >>
    ELSE IF Len(s) < r THEN <<>>
    ELSE LET with == combinations(Tail(s), r - 1)
         IN  [k \in 1..Len(with) |-> <<Head(s)>> \o with[k]] \o combinations(Tail(s), r)

RECURSIVE Flatten(_)
Flatten(ss) == IF ss = <<>> THEN <<>> ELSE Head(ss) \o Flatten(Tail(ss))

\* itertools.product(*lists), in its order
RECURSIVE product(_)
product(lists) ==
    IF lists = <<>> THEN << <<>> >>
    ELSE LET rest == product(Tail(lists))
             first == Head(lists)
         IN  Flatten([a \in 1..Len(first) |->
                        [k \in 1..Len(rest) |-> <<first[a]>> \o rest[k]]])

\* FirstClass with a bug: the first list of equivalent atoms, whether it holds
\* the electron or not
FirstClass_AnyList(electron, eq) == eq[1]

\* the first list of equivalent atoms that holds the electron
FirstClass(electron, eq) ==
    eq[CHOOSE k \in 1..Len(eq) :
          /\ electron \in Range(eq[k])
          /\ \A j \in 1..(k - 1) : electron \notin Range(eq[j])]

\* generate_combos with a bug: an electron that is in no list of equivalent
\* atoms is skipped instead of ending the function
generate_combos_SkipsUnmatched(unpaired_electrons, eq) ==
    LET matched == SelectSeq(unpaired_electrons, LAMBDA e : InSomeClass(e, eq))
        corr_eq_atoms == [k \in 1..Len(matched) |-> FirstClass(matched[k], eq)]
    IN  IF corr_eq_atoms = <<>> THEN <<>>
        ELSE IF Tail(corr_eq_atoms) = SubSeq(corr_eq_atoms, 1, Len(corr_eq_atoms) - 1)
        THEN combinations(corr_eq_atoms[1], Len(matched))
        ELSE product(corr_eq_atoms)

generate_combos(unpaired_electrons, eq) ==
    IF \E k \in 1..Len(unpaired_electrons) : ~InSomeClass(unpaired_electrons[k], eq)
    THEN <<>>
    ELSE LET corr_eq_atoms == [k \in 1..Len(unpaired_electrons) |->
                                  FirstClass(unpaired_electrons[k], eq)]
         IN  IF corr_eq_atoms = <<>> THEN "IndexError"
             ELSE IF Tail(corr_eq_atoms) = SubSeq(corr_eq_atoms, 1, Len(corr_eq_atoms) - 1)
             THEN combinations(corr_eq_atoms[1], Len(unpaired_electrons))
             ELSE product(corr_eq_atoms)

\* valid_combo with a bug: the bond between the two atoms is not tested
valid_combo_NoBondCheck(combo, g, layer) ==
    IF Len(combo) = 1 /\ Len(layer) > 1 THEN FALSE
    ELSE \E k \in 1..Len(combo) : g.rad[combo[k]] = 0

\* valid_combo with a bug: the test of line 433 is missing
valid_combo_NoLoneCheck(combo, g, layer) ==
    /\ \E k \in 1..Len(combo) : g.rad[combo[k]] = 0
    /\ Len(combo) = 2 => hasBond(g, combo[1], combo[2])

\* valid_combo with a bug: the radical electrons of the atoms are not tested
valid_combo_NoRadicalCheck(combo, g, layer) ==
    IF Len(combo) = 1 /\ Len(layer) > 1 THEN FALSE
    ELSE Len(combo) = 2 => hasBond(g, combo[1], combo[2])

valid_combo(combo, g, layer) ==
    IF Len(combo) = 1 /\ Len(layer) > 1 THEN FALSE
    ELSE /\ \E k \in 1..Len(combo) : g.rad[combo[k]] = 0
         /\ Len(combo) = 2 => hasBond(g, combo[1], combo[2])

\* SelectGroup with a bug: every valid combo replaces the selected group
RECURSIVE SelectGroup_NoComparison(_, _, _, _)
SelectGroup_NoComparison(selected_group, combos, g, layer) ==
    IF combos = <<>> THEN selected_group
    ELSE LET combo == sorted(Head(combos))
         IN  IF valid_combo(combo, g, layer)
             THEN SelectGroup_NoComparison(combo, Tail(combos), g, layer)
             ELSE SelectGroup_NoComparison(selected_group, Tail(combos), g, layer)

\* the loop over the combos of one group
RECURSIVE SelectGroup(_, _, _, _)
SelectGroup(selected_group, combos, g, layer) ==
    IF combos = <<>> THEN selected_group
    ELSE LET combo == sorted(Head(combos))
         IN  IF valid_combo(combo, g, layer) /\ ListLess(combo, selected_group)
             THEN SelectGroup(combo, Tail(combos), g, layer)
             ELSE SelectGroup(selected_group, Tail(combos), g, layer)

\* what one group is replaced by
SelectedGroup(group, g, layer, eq) ==
    LET all == generate_combos(group, eq)
        NotGroup(c) == c # group
        combos == SelectSeq(all, NotGroup)
    IN  SelectGroup(group, combos, g, layer)

\* the loop over the groups
RECURSIVE ExtendLayer(_, _, _, _)
ExtendLayer(groups, g, layer, eq) ==
    IF groups = <<>> THEN <<>>
    ELSE SelectedGroup(Head(groups), g, layer, eq) \o ExtendLayer(Tail(groups), g, layer, eq)

\* find_lowest_u_layer with a bug: the new u-layer is returned unsorted
find_lowest_u_layer_Unsorted ==
    /\ fpc = "group"
    /\ u_layer_copy = <<>>
    /\ new_u_layer' = ExtendLayer(adjacent_electrons, fmol, u_layer, equivalent_atoms)
    /\ fpc' = "done"
    /\ UNCHANGED <<lvars, svars, pvars, fmol, u_layer, equivalent_atoms, u_layer_copy, adjacent_electrons, nvars, cvars>>

\* the groups are complete: every group is replaced by its lowest valid combo
\* and the sorted new u-layer is returned
find_lowest_u_layer ==
    /\ fpc = "group"
    /\ u_layer_copy = <<>>
    /\ new_u_layer' = sorted(ExtendLayer(adjacent_electrons, fmol, u_layer, equivalent_atoms))
    /\ fpc' = "done"
    /\ UNCHANGED <<lvars, svars, pvars, fmol, u_layer, equivalent_atoms, u_layer_copy, adjacent_electrons, nvars, cvars>>

(***************************************************************************)
(* The arguments find_lowest_u_layer is applied to: an unbranched skeleton *)
(* (chain or ring) of up to FlAtoms atoms under every order of the atoms,  *)
(* with up to MaxLayer radical electrons, at most two per atom; the        *)
(* u-layer of that graph in ascending and in descending order; and every   *)
(* E-layer the canonicalization can report for the graph.                  *)
(***************************************************************************)
\* RawLayer with a bug: the index of an atom once, however many radical
\* electrons it has
RECURSIVE RawLayer_OncePerAtom(_, _)
RawLayer_OncePerAtom(g, i) ==
    IF i > NAtoms(g) THEN <<>>
    ELSE (IF g.rad[i] > 0 THEN <<i>> ELSE <<>>) \o RawLayer_OncePerAtom(g, i + 1)

\* RawLayer with a bug: the 0-based position of the atom
RECURSIVE RawLayer_ZeroBased(_, _)
RawLayer_ZeroBased(g, i) ==
    IF i > NAtoms(g) THEN <<>>
    ELSE [k \in 1..g.rad[i] |-> i - 1] \o RawLayer_ZeroBased(g, i + 1)

\* lines 133-135: the index of every atom, once per radical electron
RECURSIVE RawLayer(_, _)
RawLayer(g, i) ==
    IF i > NAtoms(g) THEN <<>>
    ELSE [k \in 1..g.rad[i] |-> i] \o RawLayer(g, i + 1)

FlGraphs(n) ==
    {Relabel([elem |-> Carbons(n),
              rad  |-> r,
              bo   |-> [p \in Pairs(n) |-> IF p \in SkeletonEdges(n, ring) THEN 1 ELSE 0]], f) :
        r \in {q \in [1..n -> 0..2] : SumSeq(q) <= MaxLayer},
        ring \in BOOLEAN,
        f \in AtomOrders(n)}

\* a list as it is and back to front
Reorderings(s) == {s, [k \in 1..Len(s) |-> s[Len(s) + 1 - k]]}

\* a set of atoms as the ascending list the E-layer is parsed into
RECURSIVE AscendingList(_)
AscendingList(S) ==
    IF S = {} THEN <<>>
    ELSE LET m == CHOOSE x \in S : \A y \in S : x <= y
         IN  <<m>> \o AscendingList(S \ {m})

\* the lists of equivalent atoms of an E-layer: disjoint sets of two or more
\* atoms, in the order of their lowest atoms
RECURSIVE ClassLists(_)
ClassLists(Cs) ==
    IF Cs = {} THEN <<>>
    ELSE LET c == CHOOSE x \in Cs : \A y \in Cs : AscendingList(x)[1] <= AscendingList(y)[1]
         IN  <<AscendingList(c)>> \o ClassLists(Cs \ {c})

\* the sets of disjoint sets of two or more atoms of S
RECURSIVE DisjointClasses(_)
DisjointClasses(S) ==
    IF S = {} THEN {{}}
    ELSE LET m == CHOOSE x \in S : \A y \in S : x <= y
         IN  DisjointClasses(S \ {m}) \cup
             UNION {{{{m} \cup T} \cup Ds : Ds \in DisjointClasses(S \ ({m} \cup T))} :
                      T \in (SUBSET (S \ {m})) \ {{}}}

\* the E-layers the canonicalization can report for a graph: atoms it cannot
\* tell apart have the same element and the same number of bonded atoms
ELayers(g) ==
    {ClassLists(Cs) :
        Cs \in {Ds \in DisjointClasses(1..NAtoms(g)) :
                  \A c \in Ds : \A a, b \in c :
                      /\ g.elem[a] = g.elem[b]
                      /\ Cardinality(Neighbours(g, a)) = Cardinality(Neighbours(g, b))}}

InitFindLowest ==
    /\ \E n \in 1..FlAtoms : fmol \in FlGraphs(n)
    /\ equivalent_atoms \in ELayers(fmol)
    /\ u_layer \in Reorderings(RawLayer(fmol, 1))
    /\ fpc = "call"
    /\ u_layer_copy = <<>>
    /\ adjacent_electrons = <<>>
    /\ new_u_layer = <<>>
    /\ NormalizeIdle
    /\ CreateIdle
    /\ SelectIdle
    /\ LookupIdle
    /\ PartitionIdle

NextFindLowest ==
    \/ FindLowestEnter
    \/ FindLowestNoEquivalents
    \/ group_adjacent_unpaired_electrons
    \/ find_lowest_u_layer

SpecFindLowest == InitFindLowest /\ [][NextFindLowest]_vars

(***************************************************************************)
(* The loop over the groups of find_lowest_u_layer (lines 454-464), one    *)
(* group and one combo at a time.                                          *)
(***************************************************************************)
\* lines 454-457: the next group is taken, its combos are generated and the
\* combos equal to the group are left out
FindLowestForGroup ==
    /\ fpc = "group"
    /\ u_layer_copy = <<>>
    /\ spc \in {"idle", "extended"}
    /\ groups_done < Len(adjacent_electrons)
    /\ groups_done' = groups_done + 1
    /\ cur_group' = adjacent_electrons[groups_done + 1]
    /\ cur_selected' = cur_group'
    /\ cur_generated' = generate_combos(cur_group', equivalent_atoms)
    /\ cur_combos' = SelectSeq(cur_generated', LAMBDA c : c # cur_group')
    /\ cur_combo' = <<>>
    /\ cur_accepted' = FALSE
    /\ spc' = "combos"
    /\ UNCHANGED <<lvars, pvars, fvars, nvars, cvars>>

\* FindLowestForCombo with a bug: a valid combo replaces the selected group
\* without being compared with it
FindLowestForCombo_NoComparison ==
    /\ spc = "combos"
    /\ cur_combos # <<>>
    /\ cur_combo' = sorted(Head(cur_combos))
    /\ cur_accepted' = valid_combo(cur_combo', fmol, u_layer)
    /\ cur_selected' = IF cur_accepted' THEN cur_combo' ELSE cur_selected
    /\ cur_combos' = Tail(cur_combos)
    /\ UNCHANGED <<lvars, spc, groups_done, cur_group, cur_generated, pvars, fvars, nvars, cvars>>

\* lines 458-462: one pass of the loop over the combos
FindLowestForCombo ==
    /\ spc = "combos"
    /\ cur_combos # <<>>
    /\ cur_combo' = sorted(Head(cur_combos))
    /\ cur_accepted' = valid_combo(cur_combo', fmol, u_layer)
    /\ cur_selected' = IF cur_accepted' /\ ListLess(cur_combo', cur_selected)
                       THEN cur_combo' ELSE cur_selected
    /\ cur_combos' = Tail(cur_combos)
    /\ UNCHANGED <<lvars, spc, groups_done, cur_group, cur_generated, pvars, fvars, nvars, cvars>>

\* line 464: the combos of the group are used up
FindLowestExtend ==
    /\ spc = "combos"
    /\ cur_combos = <<>>
    /\ new_u_layer' = new_u_layer \o cur_selected
    /\ spc' = "extended"
    /\ UNCHANGED <<lvars, groups_done, cur_group, cur_generated, cur_combos, cur_combo, cur_accepted,
                   cur_selected, pvars, fpc, fmol, u_layer, equivalent_atoms, u_layer_copy,
                   adjacent_electrons, nvars, cvars>>

\* line 466: the groups are used up, the sorted new u-layer is returned
FindLowestReturn ==
    /\ fpc = "group"
    /\ u_layer_copy = <<>>
    /\ spc \in {"idle", "extended"}
    /\ groups_done = Len(adjacent_electrons)
    /\ new_u_layer' = sorted(new_u_layer)
    /\ fpc' = "done"
    /\ UNCHANGED <<lvars, svars, pvars, fmol, u_layer, equivalent_atoms, u_layer_copy,
                   adjacent_electrons, nvars, cvars>>

\* the arguments: a graph of up to SelAtoms atoms of the family above, its
\* u-layer in ascending order and an E-layer that is not empty
InitSelect ==
    /\ \E n \in 1..SelAtoms : fmol \in FlGraphs(n)
    /\ equivalent_atoms \in ELayers(fmol) \ {<<>>}
    /\ u_layer = RawLayer(fmol, 1)
    /\ fpc = "call"
    /\ u_layer_copy = <<>>
    /\ adjacent_electrons = <<>>
    /\ new_u_layer = <<>>
    /\ NormalizeIdle
    /\ CreateIdle
    /\ SelectIdle
    /\ LookupIdle
    /\ PartitionIdle

NextSelect ==
    \/ FindLowestEnter
    \/ group_adjacent_unpaired_electrons
    \/ FindLowestForGroup
    \/ FindLowestForCombo
    \/ FindLowestExtend
    \/ FindLowestReturn

SpecSelect == InitSelect /\ [][NextSelect]_vars

(***************************************************************************)
(* partition                                                               *)
(***************************************************************************)
\* list.index(x): the position of the first entry equal to x, 0 when there
\* is none (ValueError)
IndexOf(s, x) ==
    IF \E k \in 1..Len(s) : s[k] = x
    THEN CHOOSE k \in 1..Len(s) : s[k] = x /\ \A j \in 1..(k - 1) : s[j] # x
    ELSE 0

\* PartitionStep with a bug: every entry starts a partition of its own
PartitionStep_NoMerge ==
    /\ ppc = "loop"
    /\ taken < Len(u_layer)
    /\ LET u == u_layer[taken + 1]
       IN  /\ partitions' = Append(partitions, <<u>>)
           /\ e_layers' = Append(e_layers, IF InSomeClass(u, eq_atoms)
                                           THEN FirstClass(u, eq_atoms) ELSE <<>>)
    /\ taken' = taken + 1
    /\ UNCHANGED <<lvars, ppc, eq_atoms, svars, fvars, nvars, cvars>>

\* lines 552-565: one pass of "for u in u_layer"
PartitionStep ==
    /\ ppc = "loop"
    /\ taken < Len(u_layer)
    /\ LET u == u_layer[taken + 1]
       IN  IF InSomeClass(u, eq_atoms)
           THEN LET one_e_layer == FirstClass(u, eq_atoms)
                    found == IndexOf(e_layers, one_e_layer)
                IN  IF found # 0
                    THEN /\ partitions' = [partitions EXCEPT ![found] = Append(@, u)]
                         /\ e_layers' = e_layers
                    ELSE /\ partitions' = Append(partitions, <<u>>)
                         /\ e_layers' = Append(e_layers, one_e_layer)
           ELSE /\ partitions' = Append(partitions, <<u>>)
                /\ e_layers' = Append(e_layers, <<>>)
    /\ taken' = taken + 1
    /\ UNCHANGED <<lvars, ppc, eq_atoms, svars, fvars, nvars, cvars>>

\* line 567
PartitionReturn ==
    /\ ppc = "loop"
    /\ taken = Len(u_layer)
    /\ ppc' = "done"
    /\ UNCHANGED <<lvars, eq_atoms, taken, partitions, e_layers, svars, fvars, nvars, cvars>>

\* the lists of up to len entries of S
Lists(S, len) == UNION {[1..k -> S] : k \in 0..len}

\* E-layers whose lists of equivalent atoms are runs of two or more
\* consecutive indices between lo and n
RECURSIVE ConsecutiveClasses(_, _)
ConsecutiveClasses(lo, n) ==
    {<<>>} \cup
    UNION {UNION {{<<[k \in 1..(b - a + 1) |-> a + k - 1]>> \o rest :
                      rest \in ConsecutiveClasses(b + 1, n)} :
                  b \in (a + 1)..n} :
           a \in lo..n}

InitPartition ==
    /\ u_layer \in Lists(1..PartAtoms, PartLen)
    /\ eq_atoms \in ConsecutiveClasses(1, PartAtoms)
    /\ ppc = "loop"
    /\ taken = 0
    /\ partitions = <<>>
    /\ e_layers = <<>>
    /\ fpc = "idle"
    /\ fmol = NoGraph
    /\ equivalent_atoms = <<>>
    /\ u_layer_copy = <<>>
    /\ adjacent_electrons = <<>>
    /\ new_u_layer = <<>>
    /\ NormalizeIdle
    /\ CreateIdle
    /\ SelectIdle
    /\ LookupIdle

NextPartition ==
    \/ PartitionStep
    \/ PartitionReturn

SpecPartition == InitPartition /\ [][NextPartition]_vars

(***************************************************************************)
(* create_U_layer                                                          *)
(***************************************************************************)
U_LAYER_PREFIX == <<"u">>

None == [none |-> TRUE, str |-> <<>>]

String(chars) == [none |-> FALSE, str |-> chars]

\* str(i) of a non-negative integer, as its list of characters
Digit(d) == <<"0", "1", "2", "3", "4", "5", "6", "7", "8", "9">>[d + 1]

RECURSIVE str(_)
str(i) == IF i < 10 THEN <<Digit(i)>> ELSE str(i \div 10) \o <<Digit(i % 10)>>

\* sep.join(strings)
RECURSIVE join(_, _)
join(sep, strings) ==
    IF strings = <<>> THEN <<>>
    ELSE IF Len(strings) = 1 THEN strings[1]
    ELSE strings[1] \o sep \o join(sep, Tail(strings))

CountElem(m, e) == Cardinality({i \in 1..NAtoms(m) : m.elem[i] = e})

\* the Hill formula of a molecule of carbon and hydrogen atoms
getFormula(m) ==
    LET part(e) == IF CountElem(m, e) = 0 THEN <<>>
                   ELSE IF CountElem(m, e) = 1 THEN <<e>>
                   ELSE <<e>> \o str(CountElem(m, e))
    IN  part("C") \o part("H")

\* lines 116-117: the molecule without its hydrogen atoms; the atoms that stay
\* keep their order
RemoveHydrogens(m) ==
    LET heavy == SelectSeq([i \in 1..NAtoms(m) |-> i], LAMBDA i : m.elem[i] # "H")
        n == Len(heavy)
    IN  [elem |-> [k \in 1..n |-> m.elem[heavy[k]]],
         rad  |-> [k \in 1..n |-> m.rad[heavy[k]]],
         bo   |-> [p \in Pairs(n) |-> Bo(m, heavy[p[1]], heavy[p[2]])]]

\* lines 124-127: nlayer[r] is the number of the atom that gets rank r; the
\* atoms are sorted by rank
SortAtoms(g, nlayer) ==
    LET n == NAtoms(g)
    IN  [elem |-> [r \in 1..n |-> g.elem[nlayer[r]]],
         rad  |-> [r \in 1..n |-> g.rad[nlayer[r]]],
         bo   |-> [p \in Pairs(n) |-> Bo(g, nlayer[p[1]], nlayer[p[2]])]]

\* line 143
FormatLayer(layer) ==
    String(U_LAYER_PREFIX \o join(<<",">>, [k \in 1..Len(layer) |-> str(layer[k])]))

\* CreateEarlyReturn with a bug: a molecule without radical electrons gets an
\* empty u-layer instead of None
CreateEarlyReturn_EmptyLayer ==
    /\ cpc = "start"
    /\ getRadicalCount(mol) = 0 \/ getFormula(mol) = <<"H">>
    /\ ret' = IF getRadicalCount(mol) = 0 THEN String(U_LAYER_PREFIX)
              ELSE String(U_LAYER_PREFIX \o <<"1">>)
    /\ cpc' = "return"
    /\ UNCHANGED <<lvars, svars, pvars, mol, molcopy, auxinfo, nvars, fvars>>

\* CreateEarlyReturn with a bug: the hydrogen atom gets the 0-based index
CreateEarlyReturn_ZeroBased ==
    /\ cpc = "start"
    /\ getRadicalCount(mol) = 0 \/ getFormula(mol) = <<"H">>
    /\ ret' = IF getRadicalCount(mol) = 0 THEN None
              ELSE String(U_LAYER_PREFIX \o <<"0">>)
    /\ cpc' = "return"
    /\ UNCHANGED <<lvars, svars, pvars, mol, molcopy, auxinfo, nvars, fvars>>

\* lines 109-112: the molecule has no radical electrons, or is the hydrogen atom
CreateEarlyReturn ==
    /\ cpc = "start"
    /\ getRadicalCount(mol) = 0 \/ getFormula(mol) = <<"H">>
    /\ ret' = IF getRadicalCount(mol) = 0 THEN None
              ELSE String(U_LAYER_PREFIX \o <<"1">>)
    /\ cpc' = "return"
    /\ UNCHANGED <<lvars, svars, pvars, mol, molcopy, auxinfo, nvars, fvars>>

\* CreateCopy with a bug: the hydrogen atoms are removed from the molecule of
\* the caller, and the working copy is that molecule
CreateCopy_NoCopy ==
    /\ cpc = "start"
    /\ getRadicalCount(mol) # 0
    /\ getFormula(mol) # <<"H">>
    /\ mol' = RemoveHydrogens(mol)
    /\ molcopy' = mol'
    /\ cpc' = "copied"
    /\ UNCHANGED <<lvars, svars, pvars, auxinfo, ret, nvars, fvars>>

\* lines 114-117: the deep copy, from which the hydrogen atoms are removed
CreateCopy ==
    /\ cpc = "start"
    /\ getRadicalCount(mol) # 0
    /\ getFormula(mol) # <<"H">>
    /\ molcopy' = RemoveHydrogens(mol)
    /\ cpc' = "copied"
    /\ UNCHANGED <<lvars, svars, pvars, mol, auxinfo, ret, nvars, fvars>>

\* the N-layers that have no index for at least one of n atoms
IncompleteNLayers(n) ==
    {s \in [1..n -> 1..n] \cup [1..(n - 1) -> 1..n] : Range(s) # 1..n}

\* CreateCanonicalizeFails with a bug: the atoms without an index are dropped
\* and the layer of the other atoms is returned
CreateCanonicalizeFails_DropsAtoms ==
    /\ cpc = "copied"
    /\ \E nlayer \in IncompleteNLayers(NAtoms(molcopy)) :
          /\ auxinfo' = [N |-> nlayer, E |-> <<>>]
          /\ ret' = FormatLayer(SelectSeq(RawLayer(molcopy, 1),
                                          LAMBDA i : i \in Range(nlayer)))
    /\ cpc' = "return"
    /\ UNCHANGED <<lvars, svars, pvars, mol, molcopy, nvars, fvars>>

\* lines 119-124: the N-layer of the auxiliary information has no index for
\* one of the atoms of the copy: atom_indices.index(i + 1) raises ValueError,
\* nothing is returned
CreateCanonicalizeFails ==
    /\ cpc = "copied"
    /\ \E nlayer \in IncompleteNLayers(NAtoms(molcopy)) :
          auxinfo' = [N |-> nlayer, E |-> <<>>]
    /\ cpc' = "raised"
    /\ UNCHANGED <<lvars, svars, pvars, mol, molcopy, ret, nvars, fvars>>

\* lines 119-130: the InChI auxiliary information gives the canonical order of
\* the atoms and the equivalent atoms; the atoms of the copy are sorted in
\* that order and normalize is called on the copy
CreateCanonicalize ==
    /\ cpc = "copied"
    /\ \E nlayer \in AtomOrders(NAtoms(molcopy)) :
          /\ molcopy' = SortAtoms(molcopy, nlayer)
          /\ \E elayer \in ELayers(molcopy') : auxinfo' = [N |-> nlayer, E |-> elayer]
    /\ seed' = molcopy'
    /\ isomers' = <<molcopy'>>
    /\ candidates' = <<molcopy'>>
    /\ index' = 0
    /\ npc' = "expand"
    /\ runs' = 1
    /\ cpc' = "normalizing"
    /\ UNCHANGED <<lvars, svars, pvars, mol, ret, current_minimum, firstmin, fvars>>

\* lines 130-138: normalize has returned; the preliminary u-layer is built
\* and the E-layer is parsed
CreateRawLayer ==
    /\ cpc = "normalizing"
    /\ npc = "done"
    /\ molcopy' = current_minimum
    /\ u_layer' = RawLayer(molcopy', 1)
    /\ equivalent_atoms' = auxinfo.E
    /\ cpc' = "layer"
    /\ UNCHANGED <<lvars, svars, pvars, mol, auxinfo, ret, nvars,
                   fpc, fmol, u_layer_copy, adjacent_electrons, new_u_layer>>

\* lines 139-141: there are equivalent atoms, find_lowest_u_layer is called
CreateCallFindLowest ==
    /\ cpc = "layer"
    /\ equivalent_atoms # <<>>
    /\ fmol' = molcopy
    /\ fpc' = "call"
    /\ cpc' = "refining"
    /\ UNCHANGED <<lvars, svars, pvars, mol, molcopy, auxinfo, ret, nvars,
                   u_layer, equivalent_atoms, u_layer_copy, adjacent_electrons, new_u_layer>>

\* lines 141-143: find_lowest_u_layer has returned
CreateReturnLowest ==
    /\ cpc = "refining"
    /\ fpc = "done"
    /\ u_layer' = new_u_layer
    /\ ret' = FormatLayer(u_layer')
    /\ cpc' = "return"
    /\ UNCHANGED <<lvars, svars, pvars, mol, molcopy, auxinfo, nvars,
                   fpc, fmol, equivalent_atoms, u_layer_copy, adjacent_electrons, new_u_layer>>

\* lines 139, 143: there are no equivalent atoms
CreateReturnRaw ==
    /\ cpc = "layer"
    /\ equivalent_atoms = <<>>
    /\ ret' = FormatLayer(u_layer)
    /\ cpc' = "return"
    /\ UNCHANGED <<lvars, svars, pvars, mol, molcopy, auxinfo, nvars, fvars>>

(***************************************************************************)
(* The molecules given to create_U_layer: an unbranched carbon skeleton of *)
(* up to CreateAtoms atoms with single and double bonds and up to          *)
(* MaxRadicals radical electrons, at most two per atom, no atom above      *)
(* valence 4, with a hydrogen atom on the carbon atoms that have a free    *)
(* valence; the hydrogen atom; and the hydrogen molecule.                  *)
(***************************************************************************)
CreateSkeletons(n) ==
    {g \in UNION {{[elem |-> Carbons(n),
                    rad  |-> r,
                    bo   |-> [p \in Pairs(n) |-> IF p \in DOMAIN o THEN o[p] ELSE 0]] :
                        r \in [1..n -> 0..2],
                        o \in [SkeletonEdges(n, ring) -> 1..2]} : ring \in BOOLEAN} :
        /\ getRadicalCount(g) <= MaxRadicals
        /\ \A i \in 1..n : Valence(g, i) <= 4}

\* every carbon atom with a free valence gets one hydrogen atom, which
\* follows it in the list of atoms
WithHydrogens(g) ==
    LET n == NAtoms(g)
        hasH(i) == Valence(g, i) < 4
        \* position of carbon i, and of its hydrogen, in the new list
        posC(i) == i + Cardinality({j \in 1..(i - 1) : hasH(j)})
        total == n + Cardinality({j \in 1..n : hasH(j)})
        carbonAt(q) == {i \in 1..n : posC(i) = q}
        owner(q) == CHOOSE i \in 1..n : posC(i) = q \/ (hasH(i) /\ posC(i) + 1 = q)
    IN  [elem |-> [q \in 1..total |-> IF carbonAt(q) # {} THEN "C" ELSE "H"],
         rad  |-> [q \in 1..total |-> IF carbonAt(q) # {} THEN g.rad[owner(q)] ELSE 0],
         bo   |-> [p \in Pairs(total) |->
                     IF carbonAt(p[1]) # {} /\ carbonAt(p[2]) # {}
                     THEN Bo(g, owner(p[1]), owner(p[2]))
                     ELSE IF carbonAt(p[1]) # {} /\ owner(p[2]) = owner(p[1]) THEN 1
                     ELSE 0]]

HydrogenAtom == [elem |-> <<"H">>, rad |-> <<1>>, bo |-> [p \in Pairs(1) |-> 0]]

HydrogenMolecule == [elem |-> <<"H", "H">>, rad |-> <<0, 0>>, bo |-> [p \in Pairs(2) |-> 1]]

CreateMolecules(n) ==
    {WithHydrogens(g) : g \in CreateSkeletons(n)} \cup {HydrogenAtom, HydrogenMolecule}

InitCreate ==
    /\ \E n \in 1..CreateAtoms : mol \in CreateMolecules(n)
    /\ cpc = "start"
    /\ molcopy = NoGraph
    /\ auxinfo = NoAux
    /\ ret = NoReturn
    /\ NormalizeIdle
    /\ FindLowestIdle
    /\ SelectIdle
    /\ LookupIdle
    /\ PartitionIdle

NextCreate ==
    \/ CreateEarlyReturn
    \/ CreateCopy
    \/ CreateCanonicalizeFails
    \/ CreateCanonicalize
    \/ NormalizeExpand
    \/ NormalizeLoopExit
    \/ NormalizeSelect
    \/ CreateRawLayer
    \/ CreateCallFindLowest
    \/ FindLowestEnter
    \/ group_adjacent_unpaired_electrons
    \/ find_lowest_u_layer
    \/ CreateReturnLowest
    \/ CreateReturnRaw

SpecCreate == InitCreate /\ [][NextCreate]_vars

(***************************************************************************)
(* SolvationDatabase.__addGroupSoluteData (rmgpy/data/solvation.py).       *)
(*                                                                         *)
(* The entries of the database are named by their labels 1..Len(database); *)
(* an entry is a record [parent, data] with parent the label of its parent *)
(* in the tree (0 = None) and data one of                                  *)
(*   [kind |-> "None"]                     no data                         *)
(*   [kind |-> "str", label |-> l]         a string, the label l           *)
(*   [kind |-> "SoluteData", S |-> s]      solute data                     *)
(***************************************************************************)
isString(x) == x.kind = "str"

\* lines 694-702: descendTree returned no node, or node0
LookupDescend ==
    /\ lpc = "call"
    /\ lpc' = IF node = 0 THEN "raised" ELSE "fall"
    /\ UNCHANGED <<scan, database, node, data, comment, soluteData, nvars, fvars, cvars, svars, pvars>>

\* lines 704-705: a node without data, the loop goes on with its parent
LookupFallUp ==
    /\ lpc = "fall"
    /\ node # 0
    /\ database[node].data = NoData
    /\ node' = database[node].parent
    /\ UNCHANGED <<scan, lpc, database, data, comment, soluteData, nvars, fvars, cvars, svars, pvars>>

\* lines 706-707: no ancestor has data, KeyError
LookupNoData ==
    /\ lpc = "fall"
    /\ node = 0
    /\ lpc' = "raised"
    /\ UNCHANGED <<scan, database, node, data, comment, soluteData, nvars, fvars, cvars, svars, pvars>>

\* lines 708-709
LookupTakeData ==
    /\ lpc = "fall"
    /\ node # 0
    /\ database[node].data # NoData
    /\ data' = database[node].data
    /\ comment' = node
    /\ lpc' = "follow"
    /\ UNCHANGED <<scan, database, node, soluteData, nvars, fvars, cvars, svars, pvars>>

\* lines 711-712: the next entry of the for loop has another label
LookupScan ==
    /\ lpc = "follow"
    /\ isString(data)
    /\ scan < Len(database)
    /\ scan + 1 # data.label
    /\ scan' = scan + 1
    /\ UNCHANGED <<lpc, database, node, data, comment, soluteData, nvars, fvars, cvars, svars, pvars>>

\* lines 712-715: the next entry has the label; its data is taken and the for
\* loop is left
LookupMatch ==
    /\ lpc = "follow"
    /\ isString(data)
    /\ scan < Len(database)
    /\ scan + 1 = data.label
    /\ data' = database[scan + 1].data
    /\ comment' = scan + 1
    /\ scan' = 0
    /\ UNCHANGED <<lpc, database, node, soluteData, nvars, fvars, cvars, svars, pvars>>

\* lines 710-711: the for loop is used up without a match; the while loop
\* tests the same data again and starts the next pass
LookupNoMatch ==
    /\ lpc = "follow"
    /\ isString(data)
    /\ scan = Len(database)
    /\ scan' = 0
    /\ UNCHANGED <<lpc, database, node, data, comment, soluteData, nvars, fvars, cvars, svars, pvars>>

\* lines 716-737: the data is not a string; it is added to the solute data,
\* and None has no attribute S (AttributeError)
LookupAdd ==
    /\ lpc = "follow"
    /\ ~isString(data)
    /\ IF data = NoData
       THEN /\ lpc' = "raised"
            /\ UNCHANGED soluteData
       ELSE /\ soluteData' = [S |-> soluteData.S + data.S,
                              comment |-> Append(soluteData.comment, comment)]
            /\ lpc' = "done"
    /\ UNCHANGED <<scan, database, node, data, comment, nvars, fvars, cvars, svars, pvars>>

\* the data an entry of a database of n entries can have: none, a string that
\* is the label of an entry or of no entry (n + 1), or solute data
EntryData(n) ==
    {NoData} \cup {[kind |-> "str", label |-> l] : l \in 1..(n + 1)}
             \cup {[kind |-> "SoluteData", S |-> 1]}

\* the databases of n entries: the parent of an entry is an earlier entry or
\* None
Databases(n) ==
    {db \in [1..n -> [parent : 0..(n - 1), data : EntryData(n)]] :
        \A k \in 1..n : db[k].parent < k}

InitLookup ==
    /\ database \in Databases(LookupEntries)
    /\ node \in 0..LookupEntries
    /\ lpc = "call"
    /\ data = NoData
    /\ comment = 0
    /\ scan = 0
    /\ soluteData = NoSoluteData
    /\ NormalizeIdle
    /\ CreateIdle
    /\ FindLowestIdle
    /\ SelectIdle
    /\ PartitionIdle

NextLookup ==
    \/ LookupDescend
    \/ LookupFallUp
    \/ LookupNoData
    \/ LookupTakeData
    \/ LookupScan
    \/ LookupMatch
    \/ LookupNoMatch
    \/ LookupAdd

SpecLookup == InitLookup /\ [][NextLookup]_vars /\ WF_vars(NextLookup)

(***************************************************************************)
(* Properties of normalize.                                                *)
(***************************************************************************)
NormalizeReturned == npc = "done" /\ runs = 1

\* the graphs the docstring of normalize selects from: resonance isomers of
\* the input that are isomorphic to the input
IsomorphicResonanceIsomers(g) == {h \in ResonanceReachable(g) : isIsomorphic(h, g)}

\* C1: normalize returns a graph whose sorted list of unpaired-electron
\* positions is the minimum over all graphs that are reachable from the input
\* through any number of resonance shifts and are isomorphic to the input.
C1_NormalizeReturnsMinimum ==
    NormalizeReturned =>
        /\ \E h \in IsomorphicResonanceIsomers(seed) :
              get_unpaired_electrons(h) = get_unpaired_electrons(current_minimum)
        /\ \A h \in IsomorphicResonanceIsomers(seed) :
              ListLeq(get_unpaired_electrons(current_minimum), get_unpaired_electrons(h))

\* C2: the list of unpaired-electron positions of normalize(normalize(g))
\* equals that of normalize(g).
C2_NormalizeIdempotent ==
    (npc = "done" /\ runs = 2) =>
        get_unpaired_electrons(current_minimum) = get_unpaired_electrons(firstmin)

\* C3: every graph on the candidate list of normalize, and the graph it
\* returns, is isomorphic to the input graph.
C3_CandidatesIsomorphicToSeed ==
    /\ \A k \in 1..Len(candidates) : isIsomorphic(candidates[k], seed)
    /\ npc = "done" => isIsomorphic(current_minimum, seed)

\* the position on the candidate list of the first candidate with the
\* smallest list of unpaired-electron positions
FirstMinimal(cands) ==
    CHOOSE k \in 1..Len(cands) :
        /\ \A j \in 1..Len(cands) :
              ListLeq(get_unpaired_electrons(cands[k]), get_unpaired_electrons(cands[j]))
        /\ \A j \in 1..(k - 1) :
              get_unpaired_electrons(cands[j]) # get_unpaired_electrons(cands[k])

\* C17: among the candidates with the same minimal list of unpaired-electron
\* positions normalize returns the one found first: the candidate list starts
\* with the input and grows at its end, and the returned graph is the first
\* candidate of the list whose position list is minimal.
C17_FirstMinimumWins ==
    /\ npc # "idle" => candidates[1] = seed
    /\ npc = "done" => current_minimum = candidates[FirstMinimal(candidates)]

\* a later candidate, another graph, has the same minimal list as the
\* returned one
C17_Witness ==
    /\ npc = "done"
    /\ \E j \in (FirstMinimal(candidates) + 1)..Len(candidates) :
          /\ candidates[j] # current_minimum
          /\ get_unpaired_electrons(candidates[j]) = get_unpaired_electrons(current_minimum)

IsPrefix(s, t) == Len(s) <= Len(t) /\ SubSeq(t, 1, Len(s)) = s

\* C18: normalize terminates; every isomer on the expansion list is expanded
\* exactly once (the loop takes the list members in order, one per pass, and
\* the list only grows at its end), and an isomer that is isomorphic to an
\* isomer on the list never gets on the list (it is kept as a candidate).
C18_NormalizeTerminates ==
    /\ <>(npc = "done")
    /\ [](\A k, j \in 1..Len(isomers) : k < j => ~isIsomorphic(isomers[k], isomers[j]))
    /\ [](npc \in {"select", "done"} => index = Len(isomers))
    /\ [][npc = "expand" =>
            /\ index' \in {index, index + 1}
            /\ index' = index => npc' = "select"
            /\ IsPrefix(isomers, isomers')
            /\ IsPrefix(candidates, candidates')
            /\ \A k \in (Len(candidates) + 1)..Len(candidates') :
                  \E j \in 1..Len(isomers') : isIsomorphic(isomers'[j], candidates'[k])]_vars

\* two isomers were expanded and an isomorphic isomer was kept as a candidate
C18_Witness ==
    /\ npc = "done"
    /\ Len(isomers) >= 2
    /\ Len(candidates) >= 2

(***************************************************************************)
(* Properties of find_lowest_u_layer.                                      *)
(***************************************************************************)
FindLowestReturned == fpc = "done"

\* C4: the list returned by find_lowest_u_layer is never greater than the raw
\* layer it was given, under ascending lexicographic comparison.
C4_NeverGreaterThanRawLayer ==
    FindLowestReturned => ListLeq(new_u_layer, u_layer)

\* a group was replaced by a strictly lower combo
C4_Witness ==
    /\ FindLowestReturned
    /\ equivalent_atoms # <<>>
    /\ ListLess(new_u_layer, sorted(u_layer))

\* every list of groups group_adjacent_unpaired_electrons can return, over
\* all orders in which the bonded atoms of an atom can be enumerated
RECURSIVE AllGroupings(_, _, _)
AllGroupings(g, pool, eq) ==
    IF pool = <<>> THEN {<<>>}
    ELSE LET i == pool[Len(pool)]
             popped == SubSeq(pool, 1, Len(pool) - 1)
             partners == Neighbours(g, i) \cap Range(popped)
         IN  IF ~InSomeClass(i, eq) \/ partners = {}
             THEN {<< <<i>> >> \o t : t \in AllGroupings(g, popped, eq)}
             ELSE UNION {{<<sorted(<<i, a>>)>> \o t :
                            t \in AllGroupings(g, Remove(popped, a), eq)} :
                         a \in partners}

AllResults(g, layer, eq) ==
    {sorted(ExtendLayer(groups, g, layer, eq)) : groups \in AllGroupings(g, layer, eq)}

\* C6: for the same graph, raw layer and equivalence classes,
\* find_lowest_u_layer returns the same list whatever order the bonded
\* neighbours of an atom are enumerated in.
C6_IndependentOfNeighbourOrder ==
    (FindLowestReturned /\ equivalent_atoms # <<>>) =>
        \A r \in AllResults(fmol, u_layer, equivalent_atoms) : r = new_u_layer

\* C8: find_lowest_u_layer returns an ascending list for every raw layer and
\* every list of equivalence classes.
C8_ResultAscending ==
    FindLowestReturned => IsAscending(new_u_layer)

\* C8 as amended: the result is ascending when there are equivalence classes
\* or the raw layer is ascending; without equivalence classes the raw layer is
\* returned as it is.
C8_ResultAscendingWithClasses ==
    FindLowestReturned =>
        /\ (equivalent_atoms # <<>> \/ IsAscending(u_layer)) => IsAscending(new_u_layer)
        /\ equivalent_atoms = <<>> => new_u_layer = u_layer

\* an unsorted raw layer went through the grouping and selection
C8_Witness ==
    /\ FindLowestReturned
    /\ equivalent_atoms # <<>>
    /\ ~IsAscending(u_layer)
    /\ Len(new_u_layer) >= 2

(***************************************************************************)
(* Properties of create_U_layer.                                           *)
(***************************************************************************)
\* the integers of a u-layer string: the text after the prefix, split at the
\* commas, each piece read as a decimal number
DigitValue(c) == CHOOSE d \in 0..9 : Digit(d) = c

RECURSIVE ParseInts(_, _)
ParseInts(chars, acc) ==
    IF chars = <<>> THEN <<acc>>
    ELSE IF Head(chars) = "," THEN <<acc>> \o ParseInts(Tail(chars), 0)
    ELSE ParseInts(Tail(chars), 10 * acc + DigitValue(Head(chars)))

ParseLayer(chars) == IF Len(chars) <= 1 THEN <<>> ELSE ParseInts(Tail(chars), 0)

Occurrences(s, x) == Cardinality({k \in 1..Len(s) : s[k] = x})

CreateReturned == cpc = "return"

\* the call went through canonicalization, normalize and the u-layer
FullLayerReturned ==
    /\ CreateReturned
    /\ getRadicalCount(mol) # 0
    /\ getFormula(mol) # <<"H">>

\* C5: the u-layer has one entry per unpaired electron: the raw layer holds
\* the index of an atom k times when the atom has k radical electrons,
\* find_lowest_u_layer returns a list as long as its raw layer, and the
\* returned layer has as many entries as the molecule has radical electrons.
C5_OneEntryPerUnpairedElectron ==
    /\ cpc = "layer" =>
          \A i \in 1..NAtoms(molcopy) : Occurrences(u_layer, i) = molcopy.rad[i]
    /\ (cpc = "refining" /\ fpc = "done") => Len(new_u_layer) = Len(u_layer)
    /\ (CreateReturned /\ ~ret.none) =>
          Len(ParseLayer(ret.str)) = getRadicalCount(mol)

\* an atom with two radical electrons, and a refined layer
C5_Witness ==
    /\ CreateReturned
    /\ equivalent_atoms # <<>>
    /\ \E i \in 1..NAtoms(molcopy) : molcopy.rad[i] = 2
    /\ Len(ParseLayer(ret.str)) = 2

\* C7: for a molecule with unpaired electrons that is not the hydrogen atom
\* create_U_layer returns the prefix followed by the comma-joined 1-based
\* canonical indices in ascending order.
C7_PrefixAndAscendingIndices ==
    FullLayerReturned =>
        LET entries == ParseLayer(ret.str)
        IN  /\ ~ret.none
            /\ SubSeq(ret.str, 1, 1) = U_LAYER_PREFIX
            /\ IsAscending(entries)
            /\ \A k \in 1..Len(entries) : entries[k] \in 1..NAtoms(molcopy)
            /\ ret.str = U_LAYER_PREFIX \o join(<<",">>, [k \in 1..Len(entries) |-> str(entries[k])])

\* two entries, with equivalence classes
C7_Witness ==
    /\ FullLayerReturned
    /\ auxinfo.E # <<>>
    /\ \E a, b \in 1..NAtoms(molcopy) : a < b /\ ret.str = <<"u">> \o str(a) \o <<",">> \o str(b)

\* C9: for a molecule without radical electrons create_U_layer returns None,
\* without canonicalization or resonance normalization.
C9_NoRadicalsReturnNone ==
    (CreateReturned /\ getRadicalCount(mol) = 0) =>
        /\ ret = None
        /\ auxinfo = NoAux
        /\ molcopy = NoGraph
        /\ npc = "idle"
        /\ fpc = "idle"

C9_Witness ==
    /\ CreateReturned
    /\ getRadicalCount(mol) = 0
    /\ NAtoms(mol) >= 3

\* C10: for the hydrogen atom with a radical electron create_U_layer returns
\* "u1", without asking for the canonical order.
C10_HydrogenAtom ==
    (CreateReturned /\ getFormula(mol) = <<"H">> /\ getRadicalCount(mol) >= 1) =>
        /\ ret = String(<<"u", "1">>)
        /\ auxinfo = NoAux
        /\ npc = "idle"

C10_Witness ==
    /\ CreateReturned
    /\ mol = HydrogenAtom

\* C16: create_U_layer, with the calls of normalize and find_lowest_u_layer
\* it makes, never changes the molecule of the caller: no step changes its
\* atoms, their order, their radical electrons or its bonds.
C16_CallerMoleculeUnchanged == [][mol' = mol]_vars

\* the working copy lost its hydrogen atoms, was reordered and went through
\* normalize: it is another graph than the molecule of the caller
C16_Witness ==
    /\ FullLayerReturned
    /\ NAtoms(molcopy) < NAtoms(mol)
    /\ auxinfo.N # [k \in 1..NAtoms(molcopy) |-> k]
    /\ molcopy # seed

\* C19: when the N-layer has no index for one of the heavy atoms of the
\* working copy, create_U_layer raises an error: nothing is returned, and
\* normalize and find_lowest_u_layer are not called.
C19_IncompleteNLayerRaises ==
    (auxinfo # NoAux /\ Range(auxinfo.N) # 1..NAtoms(molcopy)) =>
        /\ cpc = "raised"
        /\ ret = NoReturn
        /\ npc = "idle"
        /\ fpc = "idle"

\* the N-layer has an index for only one of three atoms with radical electrons
C19_Witness ==
    /\ cpc = "raised"
    /\ NAtoms(molcopy) = 3
    /\ Cardinality(Range(auxinfo.N)) = 1
    /\ getRadicalCount(molcopy) >= 2

(***************************************************************************)
(* Properties of generate_combos, valid_combo and the loop over the groups *)
(***************************************************************************)
\* the inner loop has passed valid_combo a combo
ComboTried == spc # "idle" /\ cur_combo # <<>>

\* C11: generate_combos returns the empty list whenever an electron of the
\* group is in none of the lists of equivalent atoms, also when the other
\* electron of the group is in one.
C11_UnmatchedElectronNoCombos ==
    (spc # "idle" /\ \E k \in 1..Len(cur_group) : ~InSomeClass(cur_group[k], equivalent_atoms)) =>
        cur_generated = <<>>

\* a pair of which one electron is in a list of equivalent atoms and the
\* other is not
C11_Witness ==
    /\ spc # "idle"
    /\ Len(cur_group) = 2
    /\ \E k \in 1..2 : InSomeClass(cur_group[k], equivalent_atoms)
    /\ \E k \in 1..2 : ~InSomeClass(cur_group[k], equivalent_atoms)
    /\ cur_generated = <<>>

\* C12: valid_combo returns False for every combo of two atoms that are not
\* bonded.
C12_UnbondedPairRejected ==
    (ComboTried /\ Len(cur_combo) = 2 /\ ~hasBond(fmol, cur_combo[1], cur_combo[2])) =>
        ~cur_accepted

\* two atoms that are not bonded, one of them without radical electrons
C12_Witness ==
    /\ ComboTried
    /\ Len(cur_combo) = 2
    /\ cur_combo[1] # cur_combo[2]
    /\ ~hasBond(fmol, cur_combo[1], cur_combo[2])
    /\ \E k \in 1..2 : fmol.rad[cur_combo[k]] = 0
    /\ ~cur_accepted

\* C13: valid_combo accepts a combo of one atom only if the raw u-layer has
\* exactly one entry; with more entries every combo of one atom is rejected
\* and a group of one electron is kept as it is.
C13_LoneElectronNotRelocated ==
    /\ (ComboTried /\ Len(cur_combo) = 1 /\ cur_accepted) => Len(u_layer) = 1
    /\ (ComboTried /\ Len(cur_combo) = 1 /\ Len(u_layer) > 1) => ~cur_accepted
    /\ (spc = "extended" /\ Len(cur_group) = 1 /\ Len(u_layer) > 1) => cur_selected = cur_group

\* an equivalent atom without radical electrons is rejected because there is
\* a second unpaired electron
C13_Witness ==
    /\ ComboTried
    /\ Len(cur_combo) = 1
    /\ Len(u_layer) > 1
    /\ fmol.rad[cur_combo[1]] = 0
    /\ ~cur_accepted

\* C14: a combo of two atoms is accepted only if the two atoms are bonded and
\* at least one of the two atoms of the original group has no radical
\* electrons.
C14_OriginalAtomWithoutRadical ==
    (ComboTried /\ Len(cur_combo) = 2 /\ cur_accepted) =>
        /\ hasBond(fmol, cur_combo[1], cur_combo[2])
        /\ \E k \in 1..Len(cur_group) : fmol.rad[cur_group[k]] = 0

\* C14 as amended: a combo of two atoms is accepted only if the two atoms are
\* bonded and at least one of the two atoms of the combo has no radical
\* electrons.
C14_ProposedAtomWithoutRadical ==
    (ComboTried /\ Len(cur_combo) = 2 /\ cur_accepted) =>
        /\ hasBond(fmol, cur_combo[1], cur_combo[2])
        /\ \E k \in 1..2 : fmol.rad[cur_combo[k]] = 0

\* a combo of two atoms was accepted and replaced the group
C14_Witness ==
    /\ ComboTried
    /\ Len(cur_combo) = 2
    /\ cur_accepted
    /\ cur_selected = cur_combo
    /\ cur_selected # cur_group

\* the sorted combos of the group that valid_combo accepts
ValidCombos(grp, g, layer, eq) ==
    LET all == generate_combos(grp, eq)
    IN  {sorted(all[k]) : k \in {j \in 1..Len(all) : valid_combo(sorted(all[j]), g, layer)}}

\* C20: every group is replaced by the smallest list among the group and the
\* sorted combos of generate_combos that valid_combo accepts; a group without
\* a valid combo is kept, and a list is returned for every grouping.
C20_GroupReplacedBySmallest ==
    /\ spc = "extended" =>
          LET valid == ValidCombos(cur_group, fmol, u_layer, equivalent_atoms)
          IN  /\ cur_selected \in valid \cup {cur_group}
              /\ \A c \in valid \cup {cur_group} : ListLeq(cur_selected, c)
              /\ valid = {} => cur_selected = cur_group
    /\ (fpc = "done" /\ spc # "idle") =>
          /\ groups_done = Len(adjacent_electrons)
          /\ new_u_layer = sorted(ExtendLayer(adjacent_electrons, fmol, u_layer, equivalent_atoms))

\* two valid combos, the lower one was selected
C20_Witness ==
    /\ spc = "extended"
    /\ Cardinality(ValidCombos(cur_group, fmol, u_layer, equivalent_atoms) \ {cur_group}) >= 2
    /\ cur_selected # cur_group

(***************************************************************************)
(* Properties of partition.                                                *)
(***************************************************************************)
PartitionReturned == ppc = "done"

\* the entries of s that are in the list c, in the order of s
EntriesIn(s, c) == SelectSeq(s, LAMBDA x : x \in Range(c))

\* C15: partition returns two lists of equal length; the entries of u_layer
\* that are in the same equivalence list form one partition, paired with that
\* list; an entry in no equivalence list is a partition by itself, paired
\* with the empty list; the partitions together hold every entry of u_layer
\* exactly once; partition([1,3], [[1,2,3,4],[5,6]]) = ([[1,3]], [[1,2,3,4]])
\* and partition([7], [[1,2,3,4],[5,6]]) = ([[7]], [[]]).
C15_PartitionGroupsByClass ==
    PartitionReturned =>
        /\ Len(partitions) = Len(e_layers)
        /\ \A k \in 1..Len(partitions) :
              IF e_layers[k] = <<>>
              THEN /\ Len(partitions[k]) = 1
                   /\ ~InSomeClass(partitions[k][1], eq_atoms)
              ELSE /\ e_layers[k] \in Range(eq_atoms)
                   /\ partitions[k] = EntriesIn(u_layer, e_layers[k])
                   /\ partitions[k] # <<>>
                   /\ \A j \in 1..Len(partitions) : e_layers[j] = e_layers[k] => j = k
        /\ \A x \in Range(u_layer) :
              Occurrences(Flatten(partitions), x) = Occurrences(u_layer, x)
        /\ Len(Flatten(partitions)) = Len(u_layer)
        /\ (u_layer = <<1, 3>> /\ eq_atoms = << <<1, 2, 3, 4>>, <<5, 6>> >>) =>
              (partitions = << <<1, 3>> >> /\ e_layers = << <<1, 2, 3, 4>> >>)
        /\ (u_layer = <<7>> /\ eq_atoms = << <<1, 2, 3, 4>>, <<5, 6>> >>) =>
              (partitions = << <<7>> >> /\ e_layers = << <<>> >>)

\* the first example of the docstring
C15_Witness ==
    /\ PartitionReturned
    /\ u_layer = <<1, 3>>
    /\ eq_atoms = << <<1, 2, 3, 4>>, <<5, 6>> >>
    /\ partitions = << <<1, 3>> >>
    /\ e_layers = << <<1, 2, 3, 4>> >>

(***************************************************************************)
(* Properties of group_adjacent_unpaired_electrons.                        *)
(***************************************************************************)
\* the groups formed so far, one after the other
GroupedElectrons == Flatten(adjacent_electrons)

\* group_adjacent_unpaired_electrons has been entered
Grouping == fpc \in {"group", "done"} /\ equivalent_atoms # <<>>

\* C21: the groups of group_adjacent_unpaired_electrons have one or two
\* entries and hold, together with the electrons not yet grouped, every entry
\* of the raw layer exactly as often as the raw layer does; a group of two is
\* an ascending pair of bonded atoms; raw layer [1,2] with the bonded atoms 1
\* and 2 in the one equivalence list [1,2] gives the single group [1,2].
C21_GroupsPartitionRawLayer ==
    Grouping =>
        /\ \A k \in 1..Len(adjacent_electrons) : Len(adjacent_electrons[k]) \in {1, 2}
        /\ \A a \in Range(u_layer) \cup Range(GroupedElectrons) \cup Range(u_layer_copy) :
              Occurrences(GroupedElectrons, a) + Occurrences(u_layer_copy, a)
                  = Occurrences(u_layer, a)
        /\ \A k \in 1..Len(adjacent_electrons) :
              Len(adjacent_electrons[k]) = 2 =>
                  /\ adjacent_electrons[k][1] < adjacent_electrons[k][2]
                  /\ hasBond(fmol, adjacent_electrons[k][1], adjacent_electrons[k][2])
        /\ (/\ u_layer = <<1, 2>>
            /\ equivalent_atoms = << <<1, 2>> >>
            /\ hasBond(fmol, 1, 2)
            /\ u_layer_copy = <<>>) => adjacent_electrons = << <<1, 2>> >>

\* the grouping of a raw layer of three entries is complete: a pair and a
\* single electron
C21_Witness ==
    /\ Grouping
    /\ u_layer_copy = <<>>
    /\ Len(u_layer) = 3
    /\ \E k \in 1..Len(adjacent_electrons) : Len(adjacent_electrons[k]) = 2
    /\ \E k \in 1..Len(adjacent_electrons) : Len(adjacent_electrons[k]) = 1

\* C22: both atoms of a pair formed by group_adjacent_unpaired_electrons are
\* in a list of equivalent atoms, and an atom that is in no list is a group by
\* itself.
C22_PairedAtomsInClasses ==
    Grouping =>
        \A k \in 1..Len(adjacent_electrons) :
            Len(adjacent_electrons[k]) = 2 =>
                /\ InSomeClass(adjacent_electrons[k][1], equivalent_atoms)
                /\ InSomeClass(adjacent_electrons[k][2], equivalent_atoms)

(***************************************************************************)
(* Properties of generate_combos.                                          *)
(***************************************************************************)
\* the list of equivalent atoms of every electron of the group
ClassesOfGroup == [k \in 1..Len(cur_group) |-> FirstClass(cur_group[k], equivalent_atoms)]

\* generate_combos was called with a group of which every electron is in a
\* list of equivalent atoms
GroupMatched ==
    /\ spc # "idle"
    /\ \A k \in 1..Len(cur_group) : InSomeClass(cur_group[k], equivalent_atoms)

C24_PositionListsSameLength ==
    \A j, k \in 1..Len(candidates) :
        getRadicalCount(candidates[j]) = getRadicalCount(candidates[k]) =>
            /\ Len(get_unpaired_electrons(candidates[j])) = Len(get_unpaired_electrons(candidates[k]))
            /\ ~(/\ get_unpaired_electrons(candidates[j]) # get_unpaired_electrons(candidates[k])
                 /\ IsPrefix(get_unpaired_electrons(candidates[j]), get_unpaired_electrons(candidates[k])))

(***************************************************************************)
(* What find_lowest_u_layer keeps of the raw layer.                        *)
(***************************************************************************)
PairwiseDistinct(s) == \A j, k \in 1..Len(s) : j < k => s[j] # s[k]

\* C25: when the raw layer given to find_lowest_u_layer holds pairwise
\* distinct atom indices, so does the returned list.
C25_DistinctStayDistinct ==
    (FindLowestReturned /\ PairwiseDistinct(u_layer)) => PairwiseDistinct(new_u_layer)

\* the entries of a list that are in no list of equivalent atoms
Unmatched(s) == SelectSeq(s, LAMBDA x : ~InSomeClass(x, equivalent_atoms))

\* C26: with pairwise disjoint lists of equivalent atoms the list returned by
\* find_lowest_u_layer has as many entries from every list of equivalent
\* atoms as the raw layer has, and holds the entries of the raw layer that are
\* in no list exactly as the raw layer does.
C26_ElectronsStayInClass ==
    FindLowestReturned =>
        /\ \A k \in 1..Len(equivalent_atoms) :
              Len(EntriesIn(new_u_layer, equivalent_atoms[k]))
                  = Len(EntriesIn(u_layer, equivalent_atoms[k]))
        /\ sorted(Unmatched(new_u_layer)) = sorted(Unmatched(u_layer))
        /\ equivalent_atoms = <<>> => new_u_layer = u_layer

\* a pair with its electrons in two different lists was replaced, next to an
\* electron that is in no list
C26_Witness ==
    /\ FindLowestReturned
    /\ Len(equivalent_atoms) >= 2
    /\ new_u_layer # sorted(u_layer)
    /\ \E k \in 1..Len(adjacent_electrons) :
          /\ Len(adjacent_electrons[k]) = 2
          /\ InSomeClass(adjacent_electrons[k][1], equivalent_atoms)
          /\ InSomeClass(adjacent_electrons[k][2], equivalent_atoms)
          /\ FirstClass(adjacent_electrons[k][1], equivalent_atoms)
                 # FirstClass(adjacent_electrons[k][2], equivalent_atoms)

(***************************************************************************)
(* Termination of __addGroupSoluteData.                                    *)
(***************************************************************************)
\* C27: in __addGroupSoluteData the loop that follows a string-valued data
\* field to the entry it names ends after finitely many passes with data that
\* is not a string, for every database: the call returns or raises.
C27_LookupTerminates == <>(lpc \in {"done", "raised"})

====
